---- MODULE Spec2Model ----
(***************************************************************************)
(* clizen: the argument-resolution and dispatch engine cli(...defs)(argv)  *)
(* of src/core/cli.ts, with the alias and choice utilities it calls.       *)
(*                                                                         *)
(* Strings are sequences of one-character strings, so that startsWith('-') *)
(* and String(value) are computed rather than tabulated.  A FlagValue is a *)
(* tagged record: S(str), N(num), B(bool); L(seq) is a list of FlagValues  *)
(* and Undef is JavaScript's undefined.                                    *)
(***************************************************************************)
EXTENDS Integers, Sequences, FiniteSets, TLC

\* ------------------------------------------------------------------------
\* Bounds of the exploration
\* ------------------------------------------------------------------------
MaxDefs == 2
MaxArgv == 2

\* ------------------------------------------------------------------------
\* Values
\* ------------------------------------------------------------------------
S(s) == [s |-> s]
N(n) == [n |-> n]
B(b) == [b |-> b]
L(l) == [list |-> l]
Undef == [undef |-> TRUE]

IsStr(v) == DOMAIN v = {"s"}
IsNum(v) == DOMAIN v = {"n"}
IsBool(v) == DOMAIN v = {"b"}
IsList(v) == DOMAIN v = {"list"}

Digit(d) == CASE d = 0 -> "0" [] d = 1 -> "1" [] d = 2 -> "2" [] d = 3 -> "3"
              [] d = 4 -> "4" [] d = 5 -> "5" [] d = 6 -> "6" [] d = 7 -> "7"
              [] d = 8 -> "8" [] d = 9 -> "9"

RECURSIVE NumToStr(_)
NumToStr(n) == IF n < 10 THEN <<Digit(n)>>
               ELSE Append(NumToStr(n \div 10), Digit(n % 10))

\* String(value) for a non-negative integer, a boolean or a string
String(v) == CASE IsStr(v) -> v.s
               [] IsNum(v) -> NumToStr(v.n)
               [] IsBool(v) -> IF v.b THEN <<"t", "r", "u", "e">>
                                      ELSE <<"f", "a", "l", "s", "e">>

\* str.startsWith('-')
StartsWithDash(str) == Len(str) > 0 /\ str[1] = "-"

\* a ?? b
Coalesce(a, b) == IF a = Undef THEN b ELSE a

\* Spread keeping the value of a for a key that a and b both have
Spread_KeepEarlier(a, b) == a @@ b

\* { ...a, ...b }: keys of b override keys of a
Spread(a, b) == b @@ a

\* seq.includes(x)
Includes(seq, x) == \E k \in 1..Len(seq) : seq[k] = x

RECURSIVE JoinFrom(_, _, _)
JoinFrom(seq, k, sep) ==
    IF k > Len(seq) THEN <<>>
    ELSE IF k = Len(seq) THEN seq[k]
    ELSE seq[k] \o sep \o JoinFrom(seq, k + 1, sep)

\* seq.join(', ')
Join(seq) == JoinFrom(seq, 1, <<",", " ">>)

\* ------------------------------------------------------------------------
\* Tokens
\* ------------------------------------------------------------------------
t_name == <<"-", "-", "n", "a", "m", "e">>
t_n == <<"-", "n">>
t_tag == <<"-", "-", "t", "a", "g">>
t_t == <<"-", "t">>
t_v == <<"-", "v">>
t_env == <<"-", "-", "e", "n", "v">>
t_port == <<"-", "-", "p", "o", "r", "t">>
t_start == <<"s", "t", "a", "r", "t">>
t_s == <<"s">>
t_foo == <<"f", "o", "o">>
t_dev == <<"d", "e", "v">>
t_prod == <<"p", "r", "o", "d">>
t_Bob == <<"B", "o", "b">>
t_Alice == <<"A", "l", "i", "c", "e">>
t_Guest == <<"G", "u", "e", "s", "t">>
t_1 == <<"1">>
t_hello == <<"h", "e", "l", "l", "o">>
t_toString == <<"t", "o", "S", "t", "r", "i", "n", "g">>

\* ------------------------------------------------------------------------
\* Definitions: command(aliases, handler, options), flag(aliases, handler,
\* options).  The handler of a definition is identified by the position of
\* the definition in the list given to cli(...).
\* ------------------------------------------------------------------------
\* alias(aliases): a scalar becomes a one-element list, a list is kept
alias(aliases) == [value |-> IF DOMAIN aliases = {"s"} THEN <<aliases.s>>
                             ELSE aliases.list]

EmptyMap == [k \in {} |-> Undef]

NoOptions == EmptyMap

command(aliases, options) ==
    [type |-> "command", alias |-> alias(aliases), options |-> options]

flag(aliases, options) ==
    [type |-> "flag", alias |-> alias(aliases), options |-> options]

\* options?.key
Opt(options, key) == IF key \in DOMAIN options THEN options[key] ELSE Undef

\* truthiness of options?.key for the boolean option keys
OptTrue(options, key) == Opt(options, key) = B(TRUE)

helloCommand == command(L(<<t_hello>>), NoOptions)
defaultCommand == command(L(<<t_start>>), [default |-> B(TRUE)])
nameFlag == flag(L(<<t_name, t_n>>), [defaultValue |-> S(t_Guest)])
repeatFlag == flag(L(<<t_tag, t_t>>), [repeatable |-> B(TRUE)])
envFlag == flag(L(<<t_env>>), [choices |-> L(<<S(t_dev), S(t_prod)>>)])
portFlag == flag(L(<<t_port, t_n>>),
                 [default |-> B(TRUE), isRequired |-> B(TRUE),
                  defaultValue |-> N(1), choices |-> L(<<N(1), N(30)>>)])
startRepeat == command(L(<<t_start, t_s>>), [repeatable |-> B(TRUE)])
tagFlag == flag(S(t_tag), [default |-> B(TRUE), defaultValue |-> S(t_Guest)])
defaultVerbose == flag(S(t_v),
                       [default |-> B(TRUE), isBoolean |-> B(TRUE),
                        repeatable |-> B(TRUE)])

Pool == {helloCommand, defaultCommand, nameFlag, repeatFlag, envFlag,
         portFlag, startRepeat, tagFlag, defaultVerbose}

\* the definition lists a runner is built from
DefLists == UNION {[1..n -> Pool] : n \in 0..MaxDefs}

\* the argument vectors a runner is called with
Tokens == {t_n, t_start, t_foo}

ExampleArgvs == {<<t_name, t_Bob>>,
                 <<t_tag, t_dev, t_tag, t_prod>>,
                 <<t_start, t_name, t_Alice>>,
                 <<t_n, t_dev, t_t, t_dev>>,
                 <<t_n, t_foo, t_foo>>,
                 <<t_n, t_1, t_n, t_foo>>,
                 <<t_n, t_1>>,
                 <<t_env>>,
                 <<t_env, t_dev>>,
                 <<t_env, t_foo>>,
                 <<t_env, t_foo, t_env, t_prod>>,
                 <<t_t, t_s>>,
                 <<t_s, t_s>>,
                 <<t_v, t_dev>>,
                 <<t_1>>,
                 <<t_t>>,
                 <<t_v>>,
                 <<t_t, t_foo>>,
                 <<t_v, t_foo>>,
                 <<t_v, t_v>>,
                 <<t_t, t_t>>,
                 <<t_t, t_n>>,
                 <<t_n, t_v>>,
                 <<t_foo, t_t>>,
                 <<t_t, t_v, t_start>>,
                 <<t_v, t_n, t_foo>>,
                 <<t_t, t_foo, t_t, t_start>>,
                 <<t_hello, t_name, t_Alice>>,
                 <<t_Guest>>,
                 <<t_toString>>,
                 <<t_s, t_hello, t_s>>}

Argvs == UNION {[1..n -> Tokens] : n \in 0..MaxArgv} \cup ExampleArgvs

\* the argument vectors a runner is called with again, and those of the
\* calls followed to their end under fairness
ShortArgvs == {<<>>, <<t_foo>>, <<t_start>>, <<t_n, t_foo>>}

\* ------------------------------------------------------------------------
\* State
\* ------------------------------------------------------------------------
VARIABLES
    definitions,    \* the definition list the runner was built from
    pc,             \* where the current call is
    argv,           \* the argument vector of the current call
    context,        \* the Context object of the current call
    knownAliases,   \* Set<string>
    usedValues,     \* Set<string>
    processedFlags, \* Set<string>
    matchedAny,     \* boolean
    cursor,         \* position of the running forEach / for-of loop
    promises,       \* the promises pushed in PHASE 3
    warnings,       \* what warn() was called with, in order
    calls,          \* the handler invocations of the call, in order
    occurrenceLog,  \* what each flag occurrence did (at = 0: the fallback)
    lastCall,       \* "none" in the runner's first call; else whether the
                    \* call before consumed a token that argv holds again
    parser          \* a ParseCommand and the state of its execute()

vars == <<definitions, pc, argv, context, knownAliases, usedValues,
          processedFlags, matchedAny, cursor, promises, warnings, calls,
          occurrenceLog, lastCall, parser>>

\* the state of the runner cli(...definitions) and of its call
engine == <<definitions, pc, argv, context, knownAliases, usedValues,
            processedFlags, matchedAny, cursor, promises, warnings, calls,
            occurrenceLog, lastCall>>

Warn(kind, type, subject, detail) ==
    [kind |-> kind, type |-> type, subject |-> subject, detail |-> detail]

\* const context: Context = { commands: [], flags: {}, options: {} }
NewContext == [commands |-> <<>>, flags |-> EmptyMap, options |-> EmptyMap,
               input |-> Undef]

\* PrimaryAlias taking the last alias
PrimaryAlias_Last(def) == def.alias.value[Len(def.alias.value)]

\* const primaryAlias = aliases[0]
PrimaryAlias(def) == def.alias.value[1]

\* the indices of argv (1-based) at which one of the aliases stands
RECURSIVE IndicesFrom(_, _, _)
IndicesFrom(aliases, args, k) ==
    IF k > Len(args) THEN <<>>
    ELSE IF Includes(aliases, args[k])
         THEN <<k>> \o IndicesFrom(aliases, args, k + 1)
         ELSE IndicesFrom(aliases, args, k + 1)

Indices(aliases, args) == IndicesFrom(aliases, args, 1)

\* ------------------------------------------------------------------------
\* utils/choice.ts
\* ------------------------------------------------------------------------
\* ValidateChoice comparing the values themselves, not their strings
ValidateChoice_Strict(value, choices, flagName, defaultValue) ==
    IF choices = Undef \/ Len(choices.list) = 0
    THEN [value |-> value, warnings |-> <<>>]
    ELSE IF ~Includes(choices.list, value)
         THEN [value |-> Coalesce(defaultValue, value),
               warnings |-> <<Warn("Invalid value for flag", "flag",
                                   flagName, String(value))>>]
         ELSE [value |-> value, warnings |-> <<>>]

ValidateChoice(value, choices, flagName, defaultValue) ==
    IF choices = Undef \/ Len(choices.list) = 0
    THEN [value |-> value, warnings |-> <<>>]
    ELSE LET stringValue == String(value)
             choiceValues == [k \in 1..Len(choices.list) |->
                                 String(choices.list[k])]
         IN IF ~Includes(choiceValues, stringValue)
            THEN [value |-> Coalesce(defaultValue, value),
                  warnings |-> <<Warn("Invalid value for flag", "flag",
                                      flagName, stringValue)>>]
            ELSE [value |-> value, warnings |-> <<>>]

\* ------------------------------------------------------------------------
\* PHASE 1: collect and validate aliases
\* ------------------------------------------------------------------------
RECURSIVE FlatAliases(_, _)
FlatAliases(defs, k) ==
    IF k > Len(defs) THEN <<>>
    ELSE defs[k].alias.value \o FlatAliases(defs, k + 1)

RECURSIVE DuplicateWarnings(_, _)
DuplicateWarnings(flat, k) ==
    IF k > Len(flat) THEN <<>>
    ELSE (IF \E j \in 1..(k - 1) : flat[j] = flat[k]
          THEN <<Warn("Duplicate alias", "", flat[k], <<>>)>>
          ELSE <<>>) \o DuplicateWarnings(flat, k + 1)

CollectAliases(defs) ==
    LET flat == FlatAliases(defs, 1)
    IN [knownAliases |-> {flat[k] : k \in 1..Len(flat)},
        warnings |-> DuplicateWarnings(flat, 1)]

\* ------------------------------------------------------------------------
\* PHASE 2: parsing arguments (without executing handlers)
\* The state threaded through the pass is the record
\*   [context, usedValues, processedFlags, matchedAny, warnings, log]
\* ------------------------------------------------------------------------
RECURSIVE Repeat(_, _)
Repeat(x, times) == IF times = 0 THEN <<>> ELSE <<x>> \o Repeat(x, times - 1)

\* Times pushing once per occurrence whatever the options are
Times_PerOccurrence(options, occurrences) == occurrences

\* const times = options?.repeatable ? occurrences : 1
Times(options, occurrences) ==
    IF OptTrue(options, "repeatable") THEN occurrences ELSE 1

MatchCommand(def, args, st) ==
    LET options == def.options
        primaryAlias == PrimaryAlias(def)
        occurrences == Len(Indices(def.alias.value, args))
        times == Times(options, occurrences)
    IN IF occurrences > 0
       THEN [st EXCEPT
               !.matchedAny = TRUE,
               !.warnings = @ \o
                  (IF ~OptTrue(options, "repeatable") /\ occurrences > 1
                   THEN <<Warn("Non-repeatable specified times", "command",
                               primaryAlias, NumToStr(occurrences))>>
                   ELSE <<>>),
               !.context.commands = @ \o Repeat(primaryAlias, times),
               !.context.options = Spread(@, options)]
       ELSE st

\* HasValue without the test of usedValues
HasValue_IgnoresUsed(options, nextArg, used) ==
    IF OptTrue(options, "isBoolean") THEN FALSE
    ELSE /\ nextArg # Undef
         /\ nextArg.s # <<>>
         /\ ~StartsWithDash(nextArg.s)

\* HasValue without the isBoolean branch
HasValue_IgnoresBoolean(options, nextArg, used) ==
    /\ nextArg # Undef
    /\ nextArg.s # <<>>
    /\ ~StartsWithDash(nextArg.s)
    /\ nextArg.s \notin used

\* Boolean(nextArg && !nextArg.startsWith('-') && !usedValues.has(nextArg)),
\* and false for an isBoolean flag
HasValue(options, nextArg, used) ==
    IF OptTrue(options, "isBoolean") THEN FALSE
    ELSE /\ nextArg # Undef
         /\ nextArg.s # <<>>
         /\ ~StartsWithDash(nextArg.s)
         /\ nextArg.s \notin used

\* WriteInput keeping the first value written
WriteInput_KeepFirst(took, nextArg, input, previous) ==
    IF previous # Undef THEN previous
    ELSE IF took THEN nextArg
    ELSE IF input # B(TRUE) THEN input
    ELSE previous

\* context.input after an occurrence:
\*   if (hasValue && nextArg) context.input = nextArg
\*   else if (input !== true) context.input = input
WriteInput(took, nextArg, input, previous) ==
    IF took THEN nextArg
    ELSE IF input # B(TRUE) THEN input
    ELSE previous

\* one pass of flagIndices.forEach: acc is
\*   [values, usedValues, input, warnings, log]
FlagOccurrence(d, def, args, flagIndex, acc) ==
    LET options == def.options
        primaryAlias == PrimaryAlias(def)
        nextArg == IF flagIndex + 1 <= Len(args)
                   THEN S(args[flagIndex + 1]) ELSE Undef
        hasValue == HasValue(options, nextArg, acc.usedValues)
        input == IF OptTrue(options, "isBoolean") THEN B(TRUE)
                 ELSE IF hasValue THEN nextArg
                 ELSE IF Opt(options, "defaultValue") # Undef
                      THEN Opt(options, "defaultValue")
                 ELSE B(TRUE)
        checked == IF /\ input # Undef
                      /\ input # B(TRUE)
                      /\ Opt(options, "choices") # Undef
                   THEN ValidateChoice(input, Opt(options, "choices"),
                                       primaryAlias,
                                       Opt(options, "defaultValue"))
                   ELSE [value |-> input, warnings |-> <<>>]
        took == hasValue /\ nextArg # Undef /\ nextArg.s # <<>>
    IN [values |-> Append(acc.values, checked.value),
        usedValues |-> IF took THEN acc.usedValues \cup {nextArg.s}
                       ELSE acc.usedValues,
        input |-> WriteInput(took, nextArg, checked.value, acc.input),
        warnings |-> acc.warnings \o checked.warnings,
        log |-> Append(acc.log,
                       [def |-> d, at |-> flagIndex,
                        took |-> IF took THEN flagIndex + 1 ELSE 0,
                        value |-> checked.value,
                        wroteInput |-> took \/ checked.value # B(TRUE)])]

RECURSIVE FlagOccurrences(_, _, _, _, _, _)
FlagOccurrences(d, def, args, flagIndices, k, acc) ==
    IF k > Len(flagIndices) THEN acc
    ELSE FlagOccurrences(d, def, args, flagIndices, k + 1,
                         FlagOccurrence(d, def, args, flagIndices[k], acc))

\* FinalValue keeping the first occurrence's value
FinalValue_First(options, values) ==
    IF OptTrue(options, "repeatable") THEN L(values) ELSE values[1]

\* const finalValue = options?.repeatable ? values : values[values.length - 1]
FinalValue(options, values) ==
    IF OptTrue(options, "repeatable") THEN L(values) ELSE values[Len(values)]

\* SynthesizedValue without the false of an absent isBoolean flag
SynthesizedValue_NoFalse(options) == Opt(options, "defaultValue")

\* the value of a flag with no occurrence:
\*   isBoolean ? defaultValue ?? false : defaultValue
SynthesizedValue(options) ==
    IF OptTrue(options, "isBoolean")
    THEN Coalesce(Opt(options, "defaultValue"), B(FALSE))
    ELSE Opt(options, "defaultValue")

MatchFlag(d, def, args, st) ==
    LET options == def.options
        primaryAlias == PrimaryAlias(def)
        flagIndices == Indices(def.alias.value, args)
        occurrences == Len(flagIndices)
    IN IF occurrences > 0
       THEN LET over == IF ~OptTrue(options, "repeatable") /\ occurrences > 1
                        THEN <<Warn("Non-repeatable specified times", "flag",
                                    primaryAlias, NumToStr(occurrences))>>
                        ELSE <<>>
                acc == FlagOccurrences(d, def, args, flagIndices, 1,
                          [values |-> <<>>,
                           usedValues |-> st.usedValues,
                           input |-> st.context.input,
                           warnings |-> st.warnings \o over,
                           log |-> st.log])
            IN [context |-> [commands |-> st.context.commands,
                             flags |-> Spread(st.context.flags,
                                 primaryAlias :> FinalValue(options, acc.values)),
                             options |-> Spread(st.context.options, options),
                             input |-> acc.input],
                usedValues |-> acc.usedValues,
                processedFlags |-> st.processedFlags \cup {primaryAlias},
                matchedAny |-> TRUE,
                warnings |-> acc.warnings,
                log |-> acc.log]
       ELSE LET value == SynthesizedValue(options)
            IN [st EXCEPT
                  !.context.flags =
                      IF value # Undef
                      THEN Spread(@, primaryAlias :>
                               (IF OptTrue(options, "repeatable")
                                THEN L(<<value>>) ELSE value))
                      ELSE @,
                  !.warnings = @ \o
                      (IF OptTrue(options, "isRequired") /\ value = Undef
                       THEN <<Warn("Missing required flag", "flag",
                                   primaryAlias, <<>>)>>
                       ELSE <<>>)]

MatchDefinition(d, def, args, st) ==
    IF def.type = "command" THEN MatchCommand(def, args, st)
    ELSE MatchFlag(d, def, args, st)


\* ------------------------------------------------------------------------
\* PHASE 3: which definitions have their handler run
\* ------------------------------------------------------------------------
WasMatched(def, ctx, processed) ==
    IF def.type = "command" THEN Includes(ctx.commands, PrimaryAlias(def))
    ELSE PrimaryAlias(def) \in processed

\* ------------------------------------------------------------------------
\* PHASE 4: default behaviour
\* ------------------------------------------------------------------------
RECURSIVE DefaultsFrom(_, _)
DefaultsFrom(defs, k) ==
    IF k > Len(defs) THEN <<>>
    ELSE IF OptTrue(defs[k].options, "default")
         THEN <<k>> \o DefaultsFrom(defs, k + 1)
         ELSE DefaultsFrom(defs, k + 1)

\* definitions.filter((def) => def.options?.default), as positions
DefaultDefinitions(defs) == DefaultsFrom(defs, 1)

\* DefaultDefinition taking the last default definition
DefaultDefinition_Last(defs) ==
    DefaultDefinitions(defs)[Len(DefaultDefinitions(defs))]

\* the position of the definition the fallback uses
DefaultDefinition(defs) == DefaultDefinitions(defs)[1]

\* FallbackApplies without the test of matchedAny
FallbackApplies_IgnoresMatched(matched, defs) ==
    Len(DefaultDefinitions(defs)) > 0

\* PHASE 4 has a default definition to run: if (!matchedAny) with a
\* defaultDefinition
FallbackApplies(matched, defs) ==
    ~matched /\ Len(DefaultDefinitions(defs)) > 0

\* argv[0] is taken as the input of the default definition
LeadingInput(args, used) ==
    /\ Len(args) > 0
    /\ args[1] \notin used
    /\ ~StartsWithDash(args[1])

\* the update of the call's state for the default definition def; st is
\*   [context, usedValues, processedFlags, warnings]
ApplyDefault(def, args, st) ==
    LET options == def.options
        primaryAlias == PrimaryAlias(def)
    IN IF def.type = "command"
       THEN [context |->
                [commands |-> Append(st.context.commands, primaryAlias),
                 flags |-> st.context.flags,
                 options |-> Spread(st.context.options, options),
                 input |-> IF LeadingInput(args, st.usedValues)
                           THEN S(args[1]) ELSE st.context.input],
             usedValues |-> IF LeadingInput(args, st.usedValues)
                            THEN st.usedValues \cup {args[1]}
                            ELSE st.usedValues,
             processedFlags |-> st.processedFlags,
             warnings |-> st.warnings]
       ELSE LET input == IF LeadingInput(args, st.usedValues)
                         THEN S(args[1])
                         ELSE Coalesce(Opt(options, "defaultValue"), B(TRUE))
                checked == IF input # B(TRUE) /\ Opt(options, "choices") # Undef
                           THEN ValidateChoice(input, Opt(options, "choices"),
                                               primaryAlias,
                                               Opt(options, "defaultValue"))
                           ELSE [value |-> input, warnings |-> <<>>]
            IN [context |->
                   [commands |-> st.context.commands,
                    flags |-> Spread(st.context.flags,
                                primaryAlias :>
                                  (IF OptTrue(options, "repeatable")
                                   THEN L(<<checked.value>>)
                                   ELSE checked.value)),
                    options |-> Spread(st.context.options, options),
                    input |-> IF LeadingInput(args, st.usedValues)
                              THEN input ELSE st.context.input],
                usedValues |-> IF LeadingInput(args, st.usedValues)
                               THEN st.usedValues \cup {args[1]}
                               ELSE st.usedValues,
                processedFlags |-> st.processedFlags \cup {primaryAlias},
                warnings |-> st.warnings \o checked.warnings]

\* ------------------------------------------------------------------------
\* PHASE 5: unknown arguments
\* ------------------------------------------------------------------------
\* the property names every object inherits from Object.prototype
ObjectPrototypeKeys ==
    {<<"c", "o", "n", "s", "t", "r", "u", "c", "t", "o", "r">>,
     <<"_", "_", "d", "e", "f", "i", "n", "e", "G", "e", "t", "t", "e", "r", "_", "_">>,
     <<"_", "_", "d", "e", "f", "i", "n", "e", "S", "e", "t", "t", "e", "r", "_", "_">>,
     <<"h", "a", "s", "O", "w", "n", "P", "r", "o", "p", "e", "r", "t", "y">>,
     <<"_", "_", "l", "o", "o", "k", "u", "p", "G", "e", "t", "t", "e", "r", "_", "_">>,
     <<"_", "_", "l", "o", "o", "k", "u", "p", "S", "e", "t", "t", "e", "r", "_", "_">>,
     <<"i", "s", "P", "r", "o", "t", "o", "t", "y", "p", "e", "O", "f">>,
     <<"p", "r", "o", "p", "e", "r", "t", "y", "I", "s", "E", "n", "u", "m", "e", "r", "a", "b", "l", "e">>,
     <<"t", "o", "S", "t", "r", "i", "n", "g">>,
     <<"v", "a", "l", "u", "e", "O", "f">>,
     <<"_", "_", "p", "r", "o", "t", "o", "_", "_">>,
     <<"t", "o", "L", "o", "c", "a", "l", "e", "S", "t", "r", "i", "n", "g">>}

\* key in obj
In(key, obj) == key \in DOMAIN obj \/ key \in ObjectPrototypeKeys

IsUnknown(arg, known, used, ctx, processed) ==
    /\ arg \notin known
    /\ arg \notin used
    /\ ~Includes(ctx.commands, arg)
    /\ arg \notin processed
    /\ ~In(arg, ctx.flags)

UnknownArgs(args, known, used, ctx, processed) ==
    SelectSeq(args, LAMBDA arg : IsUnknown(arg, known, used, ctx, processed))

\* UnknownWarnings warning only for two or more unknown arguments
UnknownWarnings_MoreThanOne(unknownArgs) ==
    IF Len(unknownArgs) > 1
    THEN <<Warn("Unknown arguments", "", <<>>, Join(unknownArgs))>>
    ELSE <<>>

UnknownWarnings(unknownArgs) ==
    IF Len(unknownArgs) > 0
    THEN <<Warn("Unknown arguments", "", <<>>, Join(unknownArgs))>>
    ELSE <<>>

\* ------------------------------------------------------------------------
\* core/parser.ts: ParseCommand, the tokenizer of the command tree
\* (new Command().command(name, ...).alias(...)), apart from the engine
\* ------------------------------------------------------------------------
t_dashdash == <<"-", "-">>
t_ff == <<"-", "-", "f">>
t_ffval == <<"-", "-", "f", "=", "v">>
t_val == <<"v">>
t_build == <<"b", "u", "i", "l", "d">>
t_b == <<"b">>
t_x == <<"x">>
t_mb == <<"-", "b">>

\* a command with no subcommand, and one with the subcommand 'build' that
\* has the aliases 'b' and '-b'
plainCommand == [subcommands |-> <<>>]
buildCommand ==
    [subcommands |-> <<[name |-> t_build, aliases |-> <<t_b, t_mb>>]>>]

ParserCommands == {plainCommand, buildCommand}

ParserTokens == {t_dashdash, t_ff, t_val, t_build, t_x}

\* the names and values of the options given in the two syntaxes
FlagNames == {<<"f">>, <<"o", "u", "t">>}
FlagValues == {t_val, <<>>, <<"-", "1">>, <<"a", "=", "b">>, t_build}

\* '--f=v'
EqualsForm(f, v) == <<"-", "-">> \o f \o <<"=">> \o v

\* '--f', 'v'
SpaceForm(f, v) == <<(<<"-", "-">> \o f), v>>

ParserExamples == {<<t_ffval>>,
                   <<t_b>>,
                   <<t_mb>>,
                   <<t_x, t_b, t_dashdash>>,
                   <<t_ff, t_val, t_build, t_ff>>,
                   <<t_x, t_ff, t_b, t_build>>,
                   <<t_ffval, t_build, t_x>>,
                   <<t_x, t_dashdash, t_ff, t_build>>}

ParserArgvs ==
    UNION {[1..n -> ParserTokens] : n \in 0..MaxArgv}
    \cup {<<EqualsForm(f, v)>> : f \in FlagNames, v \in FlagValues}
    \cup {SpaceForm(f, v) : f \in FlagNames, v \in FlagValues}
    \cup ParserExamples

\* no ParseCommand has been made
NoParser == [pc |-> "none"]

\* const parsed: Parsed = { args: [], opts: new Map(), remaining: [] }
NewParsed == [args |-> <<>>, opts |-> EmptyMap, remaining |-> <<>>]

\* str.indexOf(ch), counted from 1; 0 when ch is not in str
IndexOf(str, ch) ==
    IF \E k \in 1..Len(str) : str[k] = ch
    THEN CHOOSE k \in 1..Len(str) :
            str[k] = ch /\ \A j \in 1..(k - 1) : str[j] # ch
    ELSE 0

\* str.replace(/^-+/, '')
RECURSIVE StripDashes(_)
StripDashes(str) ==
    IF StartsWithDash(str) THEN StripDashes(Tail(str)) ELSE str

\* IsSubcommand comparing with the names only
IsSubcommand_NameOnly(arg, subcommands) ==
    \E k \in 1..Len(subcommands) : subcommands[k].name = arg

IsSubcommand(arg, subcommands) ==
    \E k \in 1..Len(subcommands) :
        \/ subcommands[k].name = arg
        \/ Includes(subcommands[k].aliases, arg)

\* nextArg && !nextArg.startsWith('-'), nextArg being argvs[i + 1] or null
\* (i counts from 0)
NextIsValue(argvs, i) ==
    /\ i + 1 < Len(argvs)
    /\ argvs[i + 2] # <<>>
    /\ ~StartsWithDash(argvs[i + 2])

\* the body of the for loop of execute() for this.argvs[i]; st is
\*   [i, parsed, stopped]
ScanArg(cmd, argvs, st) ==
    LET i == st.i
        arg == argvs[i + 1]
    IN IF arg = t_dashdash
       THEN [st EXCEPT !.parsed.remaining = SubSeq(argvs, i + 2, Len(argvs)),
                       !.stopped = TRUE]
       ELSE IF StartsWithDash(arg)
       THEN LET equalsIndex == IndexOf(arg, "=")
            IN IF equalsIndex > 0
               THEN [st EXCEPT
                       !.parsed.opts = Spread(@,
                           StripDashes(SubSeq(arg, 1, equalsIndex - 1)) :>
                              S(SubSeq(arg, equalsIndex + 1, Len(arg)))),
                       !.i = i + 1]
               ELSE IF NextIsValue(argvs, i)
               THEN [st EXCEPT
                       !.parsed.opts = Spread(@, StripDashes(arg) :>
                                                   S(argvs[i + 2])),
                       !.i = i + 2]
               ELSE [st EXCEPT
                       !.parsed.opts = Spread(@, StripDashes(arg) :> B(TRUE)),
                       !.i = i + 1]
       ELSE IF IsSubcommand(arg, cmd.subcommands)
       THEN [st EXCEPT !.parsed.remaining = SubSeq(argvs, i + 1, Len(argvs)),
                       !.stopped = TRUE]
       ELSE [st EXCEPT !.parsed.args = Append(@, arg), !.i = i + 1]

\* execute() from the state st of its loop to its return value
RECURSIVE ExecuteFrom(_, _, _)
ExecuteFrom(cmd, argvs, st) ==
    IF st.stopped \/ st.i >= Len(argvs) THEN st.parsed
    ELSE ExecuteFrom(cmd, argvs, ScanArg(cmd, argvs, st))

\* new ParseCommand(cmd, argvs).execute()
Execute(cmd, argvs) ==
    ExecuteFrom(cmd, argvs,
                [i |-> 0, parsed |-> NewParsed, stopped |-> FALSE])

\* ------------------------------------------------------------------------
\* Handlers.  What a handler does is an input of the call: invoked, it
\* returns, throws, or returns a promise that is settled later (or never).
\* ------------------------------------------------------------------------
Outcomes == {"returned", "threw", "pending"}
Settlements == {"resolved", "rejected", "rejectedNullish"}

\* ------------------------------------------------------------------------
\* Initial state: a runner cli(...definitions), not called yet
\* ------------------------------------------------------------------------
Init ==
    /\ definitions \in DefLists
    /\ pc = "idle"
    /\ argv = <<>>
    /\ context = NewContext
    /\ knownAliases = {}
    /\ usedValues = {}
    /\ processedFlags = {}
    /\ matchedAny = FALSE
    /\ cursor = 1
    /\ promises = <<>>
    /\ warnings = <<>>
    /\ calls = <<>>
    /\ occurrenceLog = <<>>
    /\ lastCall = "none"
    /\ parser = NoParser

\* NextMatched walking the definitions from the last one
NextMatched_Last(defs, k, ctx, processed) ==
    LET matched == {d \in k..Len(defs) : WasMatched(defs[d], ctx, processed)}
    IN IF matched = {} THEN 0
       ELSE CHOOSE d \in matched : \A e \in matched : e <= d

\* NextMatched taking the matched flags before the matched commands
NextMatched_FlagsFirst(defs, k, ctx, processed) ==
    LET matched == {d \in k..Len(defs) : WasMatched(defs[d], ctx, processed)}
        flags == {d \in matched : defs[d].type = "flag"}
        from == IF flags # {} THEN flags ELSE matched
    IN IF matched = {} THEN 0
       ELSE CHOOSE d \in from : \A e \in from : d <= e

\* NextMatched starting again from the first definition
NextMatched_Restart(defs, k, ctx, processed) ==
    LET matched == {d \in 1..Len(defs) : WasMatched(defs[d], ctx, processed)}
    IN IF matched = {} THEN 0
       ELSE CHOOSE d \in matched : \A e \in matched : d <= e

\* the first definition at or after position k whose handler PHASE 3 runs;
\* 0 when the loop ends without one
RECURSIVE NextMatched(_, _, _, _)
NextMatched(defs, k, ctx, processed) ==
    IF k > Len(defs) THEN 0
    ELSE IF WasMatched(defs[k], ctx, processed) THEN k
    ELSE NextMatched(defs, k + 1, ctx, processed)

\* the warnings after PHASE 5
AfterUnknownScan(warns, ctx, used, processed) ==
    warns \o UnknownWarnings(UnknownArgs(argv, knownAliases, used, ctx,
                                         processed))

\* NewUsedValues keeping the set of the call before
NewUsedValues_Kept == usedValues

\* const usedValues = new Set<string>(), in the body of the runner
NewUsedValues == {}

\* the body of the runner up to the end of PHASE 1: the per-call state is
\* created and the aliases are collected
Enter(args) ==
    /\ argv' = args
    /\ context' = NewContext
    /\ usedValues' = NewUsedValues
    /\ processedFlags' = {}
    /\ matchedAny' = FALSE
    /\ promises' = <<>>
    /\ calls' = <<>>
    /\ occurrenceLog' = <<>>
    /\ LET r == CollectAliases(definitions)
       IN /\ knownAliases' = r.knownAliases
          /\ warnings' = r.warnings
    /\ pc' = IF Len(definitions) = 0 THEN "phase3" ELSE "phase2"
    /\ cursor' = 1
    /\ UNCHANGED <<definitions, parser>>

\* run(argv), the first call of the runner
Call(args) ==
    /\ pc = "idle"
    /\ Enter(args)
    /\ UNCHANGED lastCall

\* run(argv) again, once the call before has returned or rejected
CallAgain(args) ==
    /\ pc \in {"returned", "rejected"}
    /\ Enter(args)
    /\ lastCall' = IF \E i \in 1..Len(args) : args[i] \in usedValues
                   THEN "used" ELSE "clean"

\* PassOver leaving the forEach after its first pass
PassOver_AfterFirst(k, defs) == TRUE

\* the pass over the definition at position k is the last of the forEach
PassOver(k, defs) == k = Len(defs)

\* one pass of the PHASE 2 forEach
MatchStep ==
    /\ pc = "phase2"
    /\ cursor <= Len(definitions)
    /\ LET st == MatchDefinition(cursor, definitions[cursor], argv,
                    [context |-> context, usedValues |-> usedValues,
                     processedFlags |-> processedFlags,
                     matchedAny |-> matchedAny, warnings |-> warnings,
                     log |-> occurrenceLog])
       IN /\ context' = st.context
          /\ usedValues' = st.usedValues
          /\ processedFlags' = st.processedFlags
          /\ matchedAny' = st.matchedAny
          /\ warnings' = st.warnings
          /\ occurrenceLog' = st.log
    /\ pc' = IF PassOver(cursor, definitions) THEN "phase3" ELSE "phase2"
    /\ cursor' = IF PassOver(cursor, definitions) THEN 1 ELSE cursor + 1
    /\ UNCHANGED <<definitions, argv, knownAliases, promises, calls,
                   lastCall, parser>>

\* the PHASE 3 loop up to and including its next handler invocation,
\* promises.push(Promise.resolve(handler(context)).catch(...)): a throw of
\* handler(context) leaves the loop and the async function
InvokeHandler(outcome) ==
    /\ pc = "phase3"
    /\ LET d == NextMatched(definitions, cursor, context, processedFlags)
       IN /\ d # 0
          /\ calls' = Append(calls,
                             [def |-> d, phase |-> "ordinary",
                              context |-> context,
                              failure |-> IF outcome = "threw" THEN "threw"
                                          ELSE "none"])
          /\ IF outcome = "threw"
             THEN /\ pc' = "rejected"
                  /\ UNCHANGED <<promises, cursor>>
             ELSE /\ promises' = Append(promises,
                                     [call |-> Len(calls) + 1,
                                      state |-> IF outcome = "returned"
                                                THEN "fulfilled"
                                                ELSE "pending"])
                  /\ cursor' = d + 1
                  /\ UNCHANGED pc
    /\ UNCHANGED <<definitions, argv, context, knownAliases, usedValues,
                   processedFlags, matchedAny, warnings, occurrenceLog,
                   lastCall, parser>>

\* the loop is over and the engine is suspended in await Promise.all(promises)
Awaiting ==
    /\ pc = "phase3"
    /\ NextMatched(definitions, cursor, context, processedFlags) = 0

\* a promise returned by a handler settles.  A rejection runs the .catch
\* callback, which warns; it reads error.message, which throws for null and
\* undefined: then the pushed promise rejects, and with it Promise.all and
\* the call
Settle(k, how) ==
    /\ Awaiting
    /\ k \in 1..Len(promises)
    /\ promises[k].state = "pending"
    /\ LET def == definitions[calls[promises[k].call].def]
       IN /\ promises' = [promises EXCEPT ![k].state =
                             IF how = "rejectedNullish" THEN "rejected"
                             ELSE "fulfilled"]
          /\ calls' = IF how = "resolved" THEN calls
                      ELSE [calls EXCEPT ![promises[k].call].failure = how]
          /\ warnings' = IF how = "rejected"
                         THEN Append(warnings,
                                     Warn("Error executing", def.type,
                                          PrimaryAlias(def), <<>>))
                         ELSE warnings
    /\ pc' = IF how = "rejectedNullish" THEN "rejected" ELSE pc
    /\ UNCHANGED <<definitions, argv, context, knownAliases, usedValues,
                   processedFlags, matchedAny, cursor, occurrenceLog,
                   lastCall, parser>>

\* Joined not waiting for the promises
Joined_NoWait == Awaiting

\* Promise.all has fulfilled
Joined ==
    /\ Awaiting
    /\ \A k \in 1..Len(promises) : promises[k].state = "fulfilled"

\* PHASE 4 does nothing (something matched, or no definition is a default),
\* PHASE 5 runs and the context is returned
Return ==
    /\ Joined
    /\ ~FallbackApplies(matchedAny, definitions)
    /\ warnings' = AfterUnknownScan(warnings, context, usedValues,
                                    processedFlags)
    /\ pc' = "returned"
    /\ UNCHANGED <<definitions, argv, context, knownAliases, usedValues,
                   processedFlags, matchedAny, cursor, promises, calls,
                   occurrenceLog, lastCall, parser>>

\* PHASE 4 for the first default definition: the context is updated and the
\* handler invoked.  A throw of handler(context) rejects the call; after a
\* plain return PHASE 5 runs and the context is returned; a pending promise
\* is awaited.
DefaultFallback(outcome) ==
    /\ Joined
    /\ FallbackApplies(matchedAny, definitions)
    /\ LET defaults == DefaultDefinitions(definitions)
           d == DefaultDefinition(definitions)
           multiple == IF Len(defaults) > 1
                       THEN <<Warn("Multiple default definitions", "",
                                   PrimaryAlias(definitions[d]), <<>>)>>
                       ELSE <<>>
           st == ApplyDefault(definitions[d], argv,
                    [context |-> context, usedValues |-> usedValues,
                     processedFlags |-> processedFlags,
                     warnings |-> warnings \o multiple])
       IN /\ context' = st.context
          /\ usedValues' = st.usedValues
          /\ processedFlags' = st.processedFlags
          /\ warnings' = IF outcome = "returned"
                         THEN AfterUnknownScan(st.warnings, st.context,
                                               st.usedValues,
                                               st.processedFlags)
                         ELSE st.warnings
          /\ calls' = Append(calls,
                             [def |-> d, phase |-> "default",
                              context |-> st.context,
                              failure |-> IF outcome = "threw" THEN "threw"
                                          ELSE "none"])
          /\ occurrenceLog' =
                IF LeadingInput(argv, usedValues)
                THEN Append(occurrenceLog,
                            [def |-> d, at |-> 0, took |-> 1,
                             value |-> st.context.input, wroteInput |-> TRUE])
                ELSE occurrenceLog
    /\ pc' = CASE outcome = "threw" -> "rejected"
               [] outcome = "returned" -> "returned"
               [] outcome = "pending" -> "phase4"
    /\ UNCHANGED <<definitions, argv, knownAliases, matchedAny, cursor,
                   promises, lastCall, parser>>

\* the promise of the default handler settles; unless the .catch callback
\* throws, PHASE 5 runs and the context is returned
DefaultSettle(how) ==
    /\ pc = "phase4"
    /\ LET def == definitions[calls[Len(calls)].def]
           caught == IF how = "rejected"
                     THEN Append(warnings,
                                 Warn("Error executing default", def.type,
                                      PrimaryAlias(def), <<>>))
                     ELSE warnings
       IN /\ calls' = IF how = "resolved" THEN calls
                      ELSE [calls EXCEPT ![Len(calls)].failure = how]
          /\ warnings' = IF how = "rejectedNullish" THEN warnings
                         ELSE AfterUnknownScan(caught, context, usedValues,
                                               processedFlags)
    /\ pc' = IF how = "rejectedNullish" THEN "rejected" ELSE "returned"
    /\ UNCHANGED <<definitions, argv, context, knownAliases, usedValues,
                   processedFlags, matchedAny, cursor, promises,
                   occurrenceLog, lastCall, parser>>

Next ==
    \/ \E args \in Argvs : Call(args)
    \/ MatchStep
    \/ \E outcome \in Outcomes : InvokeHandler(outcome)
    \/ \E k \in 1..Len(promises), how \in Settlements : Settle(k, how)
    \/ Return
    \/ \E outcome \in Outcomes : DefaultFallback(outcome)
    \/ \E how \in Settlements : DefaultSettle(how)

Spec == Init /\ [][Next]_vars

\* a runner called any number of times, one call after the other
NextCalls ==
    \/ Next
    \/ \E args \in ShortArgvs : CallAgain(args)

SpecCalls == Init /\ [][NextCalls]_vars

\* one call of a runner followed to its end.  The body of the runner runs
\* on: the forEach of PHASE 2 and the loop of PHASE 3 are synchronous code,
\* and the continuation of await Promise.all(promises) is run once every
\* promise has fulfilled.  When the promise of a handler settles is up to
\* the handler: no fairness for Settle and DefaultSettle
\* new ParseCommand(command, argvs).execute(), up to its for loop
ParseCall(cmd, argvs) ==
    /\ parser.pc = "none"
    /\ parser' = [pc |-> "loop", command |-> cmd, argvs |-> argvs,
                  i |-> 0, parsed |-> NewParsed, stopped |-> FALSE]
    /\ UNCHANGED engine

\* one pass of the for loop
ParseStep ==
    /\ parser.pc = "loop"
    /\ ~parser.stopped
    /\ parser.i < Len(parser.argvs)
    /\ LET st == ScanArg(parser.command, parser.argvs,
                         [i |-> parser.i, parsed |-> parser.parsed,
                          stopped |-> parser.stopped])
       IN parser' = [parser EXCEPT !.i = st.i, !.parsed = st.parsed,
                                   !.stopped = st.stopped]
    /\ UNCHANGED engine

\* the loop is left, by break or at the end of argvs: return parsed
ParseReturn ==
    /\ parser.pc = "loop"
    /\ parser.stopped \/ parser.i >= Len(parser.argvs)
    /\ parser' = [parser EXCEPT !.pc = "done"]
    /\ UNCHANGED engine

\* a ParseCommand and its execute(); no runner of the engine is involved
InitParser == Init /\ definitions = <<>>

NextParser ==
    \/ \E cmd \in ParserCommands, argvs \in ParserArgvs :
          ParseCall(cmd, argvs)
    \/ ParseStep
    \/ ParseReturn

SpecParser == InitParser /\ [][NextParser]_vars

NextLive ==
    \/ \E args \in ShortArgvs : Call(args)
    \/ MatchStep
    \/ \E outcome \in Outcomes : InvokeHandler(outcome)
    \/ \E k \in 1..Len(promises), how \in Settlements : Settle(k, how)
    \/ Return
    \/ \E outcome \in Outcomes : DefaultFallback(outcome)
    \/ \E how \in Settlements : DefaultSettle(how)

SpecLive ==
    /\ Init
    /\ [][NextLive]_vars
    /\ WF_vars(MatchStep)
    /\ WF_vars(\E outcome \in Outcomes : InvokeHandler(outcome))
    /\ WF_vars(Return)
    /\ WF_vars(\E outcome \in Outcomes : DefaultFallback(outcome))

\* ------------------------------------------------------------------------
\* Properties
\* ------------------------------------------------------------------------
Ended == pc \in {"returned", "rejected"}

\* the definition at position d has an occurrence of one of its aliases
HasOccurrence(d) == Len(Indices(definitions[d].alias.value, argv)) > 0

AnyOccurrence == \E d \in 1..Len(definitions) : HasOccurrence(d)

Invoked(d) == \E k \in 1..Len(calls) : calls[k].def = d

Failed(k) == calls[k].failure # "none"

Warned(w) == \E k \in 1..Len(warnings) : warnings[k] = w

\* the definitions PHASE 3 has to run, once something in argv has matched
Matched(d) ==
    /\ matchedAny
    /\ WasMatched(definitions[d], context, processedFlags)

\* C1: when the call has ended, every matched definition has had its handler
\* invoked, whatever the other handlers did, and every failure of a handler
\* of PHASE 3 was reported by a warning with the definition's kind and
\* primary alias
C1_FailureIsolated ==
    Ended =>
        /\ \A d \in 1..Len(definitions) : Matched(d) => Invoked(d)
        /\ \A k \in 1..Len(calls) :
              (calls[k].phase = "ordinary" /\ Failed(k)) =>
                  Warned(Warn("Error executing",
                              definitions[calls[k].def].type,
                              PrimaryAlias(definitions[calls[k].def]), <<>>))

\* C2: the call never rejects, whatever the handlers do
C2_NeverRejects == pc # "rejected"


DefaultRan == \E k \in 1..Len(calls) : calls[k].phase = "default"

\* the positions of the definitions whose handlers were invoked, in order
CallDefs == [k \in 1..Len(calls) |-> calls[k].def]

\* the positions of the definitions marked default: true
Defaults == {d \in 1..Len(definitions) :
                Opt(definitions[d].options, "default") = B(TRUE)}

\* C3: the default fallback has run only if no definition had an occurrence
\* in argv, and then no handler of PHASE 3 has run; when the call has ended
\* with no occurrence and a default definition exists, the fallback has run.
\* With [command(['start'], h1, {default: true}), flag(['--name', '-n'], h2,
\* {defaultValue: 'Guest'})]: [] gives commands = ['start'] and only h1
\* invoked, once; ['--name', 'Bob'] gives flags['--name'] = 'Bob' and only
\* h2 invoked
C3_DefaultExclusive ==
    /\ DefaultRan => (~AnyOccurrence /\ Len(calls) = 1)
    /\ (Ended /\ ~AnyOccurrence /\ Defaults # {}) => DefaultRan
    /\ (pc = "returned" /\ definitions = <<defaultCommand, nameFlag>>) =>
          /\ argv = <<>> =>
                (context.commands = <<t_start>> /\ CallDefs = <<1>>)
          /\ argv = <<t_name, t_Bob>> =>
                /\ context.flags[t_name] = S(t_Bob)
                /\ context.commands = <<>>
                /\ CallDefs = <<2>>

C3_Witness ==
    /\ pc = "returned"
    /\ definitions = <<defaultCommand, nameFlag>>
    /\ argv = <<>>
    /\ DefaultRan
    /\ context.commands = <<t_start>>

\* C4: with two or more default definitions and nothing matched, the only
\* handler invoked is the one of the first-declared default definition,
\* once; only that definition is applied to the context, and a warning
\* names its primary alias
C4_FirstDefaultOnly ==
    ((Ended \/ pc = "phase4") /\ ~AnyOccurrence /\ Cardinality(Defaults) >= 2)
    => LET first == CHOOSE d \in Defaults : \A e \in Defaults : d <= e
           primary == PrimaryAlias(definitions[first])
       IN /\ CallDefs = <<first>>
          /\ calls[1].phase = "default"
          /\ Warned(Warn("Multiple default definitions", "", primary, <<>>))
          /\ IF definitions[first].type = "command"
             THEN context.commands = <<primary>> /\ processedFlags = {}
             ELSE context.commands = <<>> /\ processedFlags = {primary}

C4_Witness ==
    /\ pc = "returned"
    /\ definitions = <<tagFlag, defaultCommand>>
    /\ argv = <<t_foo>>
    /\ CallDefs = <<1>>
    /\ context.flags[t_tag] = S(t_foo)


\* the call is past PHASE 2
Parsed == pc \in {"phase3", "phase4", "returned", "rejected"}

IsFlag(d) == definitions[d].type = "flag"

Occ(d) == Indices(definitions[d].alias.value, argv)

\* a flag definition declared after d stores under the same primary alias
Shadowed(d) ==
    \E e \in (d + 1)..Len(definitions) :
        IsFlag(e) /\ PrimaryAlias(definitions[e]) = PrimaryAlias(definitions[d])

\* what the occurrence at position i of the flag at d can resolve to: the
\* token after it, the flag's defaultValue, or true
Candidates(d, i) ==
    {B(TRUE)}
    \cup (IF i + 1 <= Len(argv) THEN {S(argv[i + 1])} ELSE {})
    \cup (IF Opt(definitions[d].options, "defaultValue") # Undef
          THEN {Opt(definitions[d].options, "defaultValue")} ELSE {})

StoredAsClaimed(d) ==
    LET occ == Occ(d)
        n == Len(occ)
        primary == PrimaryAlias(definitions[d])
    IN /\ primary \in DOMAIN context.flags
       /\ IF Opt(definitions[d].options, "repeatable") = B(TRUE)
          THEN /\ IsList(context.flags[primary])
               /\ Len(context.flags[primary].list) = n
               /\ \A i \in 1..n :
                     context.flags[primary].list[i] \in Candidates(d, occ[i])
          ELSE n > 1 =>
                 /\ context.flags[primary] \in Candidates(d, occ[n])
                 /\ Warned(Warn("Non-repeatable specified times", "flag",
                                primary, NumToStr(n)))

\* C5 as stated: for every flag with N >= 1 occurrences, flags[primary] is
\* the list of its N values in occurrence order if it is repeatable, and the
\* value of its last occurrence, with a warning, if it is not and N > 1
C5_AsStated ==
    Parsed => \A d \in 1..Len(definitions) :
                 (IsFlag(d) /\ HasOccurrence(d)) => StoredAsClaimed(d)

\* C5: the same for every flag after which no flag with the same primary
\* alias is declared; ['--tag', 'dev', '--tag', 'prod'] gives ['dev', 'prod']
C5_FlagValuesStored ==
    Parsed =>
       /\ \A d \in 1..Len(definitions) :
             (IsFlag(d) /\ HasOccurrence(d) /\ ~Shadowed(d))
                => StoredAsClaimed(d)
       /\ (definitions = <<repeatFlag>>
           /\ argv = <<t_tag, t_dev, t_tag, t_prod>>)
             => context.flags[t_tag] = L(<<S(t_dev), S(t_prod)>>)

C5_Witness ==
    /\ pc = "returned"
    /\ definitions = <<nameFlag>>
    /\ argv = <<t_n, t_1, t_n, t_foo>>
    /\ context.flags[t_name] = S(t_foo)

\* the argv position i holds a declared alias
AliasAt(i) == argv[i] \in knownAliases

\* the argv position i was consumed as a value
ConsumedAt(i) ==
    \E k \in 1..Len(occurrenceLog) : occurrenceLog[k].took = i

\* the argv position i is listed in the unknown-arguments warning
ReportedAt(i) ==
    /\ Len(UnknownArgs(argv, knownAliases, usedValues, context,
                       processedFlags)) > 0
    /\ IsUnknown(argv[i], knownAliases, usedValues, context, processedFlags)

\* C6: when the call returns, every position of argv is exactly one of: an
\* occurrence of a declared alias, a consumed value, reported as unknown
C6_ClassifiedOnce ==
    pc = "returned" =>
        \A i \in 1..Len(argv) :
            (IF AliasAt(i) THEN 1 ELSE 0) + (IF ConsumedAt(i) THEN 1 ELSE 0)
            + (IF ReportedAt(i) THEN 1 ELSE 0) = 1

\* C7: no two flag occurrences of one call have consumed the same token
C7_ConsumedOnce ==
    \A j, k \in 1..Len(occurrenceLog) :
        (j # k /\ occurrenceLog[j].took # 0 /\ occurrenceLog[k].took # 0)
            => argv[occurrenceLog[j].took] # argv[occurrenceLog[k].took]

C7_Witness ==
    /\ pc = "returned"
    /\ definitions = <<nameFlag, repeatFlag>>
    /\ argv = <<t_n, t_dev, t_t, t_dev>>
    /\ Len(occurrenceLog) = 2
    /\ occurrenceLog[1].took = 2
    /\ occurrenceLog[2].took = 0
    /\ context.flags[t_tag] = L(<<B(TRUE)>>)

IsBooleanFlag(d) ==
    IsFlag(d) /\ Opt(definitions[d].options, "isBoolean") = B(TRUE)

\* C8: an occurrence of an isBoolean flag resolves to true, consumes no
\* token and does not write context.input; so a call whose flags are all
\* isBoolean has consumed nothing and written no input when PHASE 2 is over,
\* and an isBoolean flag with occurrences stores true (a list of true if
\* repeatable)
C8_BooleanConsumesNothing ==
    /\ \A k \in 1..Len(occurrenceLog) :
          (occurrenceLog[k].at # 0 /\ IsBooleanFlag(occurrenceLog[k].def))
             => /\ occurrenceLog[k].took = 0
                /\ occurrenceLog[k].value = B(TRUE)
                /\ ~occurrenceLog[k].wroteInput
    /\ (pc \in {"phase2", "phase3"}
        /\ \A d \in 1..Len(definitions) : IsFlag(d) => IsBooleanFlag(d))
          => (usedValues = {} /\ context.input = Undef)
    /\ Parsed =>
          \A d \in 1..Len(definitions) :
             (IsBooleanFlag(d) /\ HasOccurrence(d) /\ ~Shadowed(d))
                => context.flags[PrimaryAlias(definitions[d])]
                      \in {B(TRUE), L(Repeat(B(TRUE), Len(Occ(d))))}

C8_Witness ==
    /\ pc = "returned"
    /\ definitions = <<defaultVerbose>>
    /\ argv = <<t_v, t_dev>>
    /\ usedValues = {}
    /\ context.input = Undef
    /\ context.flags[t_v] = L(<<B(TRUE)>>)

UnknownFooWarned == Warned(Warn("Unknown arguments", "", <<>>, t_foo))

NothingSynthesized ==
    \A d \in 1..Len(definitions) :
        IsFlag(d) => /\ Opt(definitions[d].options, "defaultValue") = Undef
                     /\ ~IsBooleanFlag(d)

HasChoices(d) ==
    /\ IsFlag(d)
    /\ Opt(definitions[d].options, "choices") # Undef
    /\ Len(Opt(definitions[d].options, "choices").list) > 0

\* the value is one of the choices of the flag at d, compared as strings
IsChoice(d, value) ==
    LET choices == Opt(definitions[d].options, "choices").list
    IN \E k \in 1..Len(choices) : String(choices[k]) = String(value)

InvalidWarned(d, value) ==
    Warned(Warn("Invalid value for flag", "flag",
                PrimaryAlias(definitions[d]), String(value)))

\* what a flag with choices resolves the received value to
Validated(d, value) ==
    IF IsChoice(d, value) THEN value
    ELSE IF Opt(definitions[d].options, "defaultValue") # Undef
         THEN Opt(definitions[d].options, "defaultValue")
         ELSE value

Unwrapped(d, stored) ==
    IF Opt(definitions[d].options, "repeatable") = B(TRUE)
    THEN stored.list[Len(stored.list)] ELSE stored

\* C10: a token received by a flag with choices resolves to itself, with no
\* warning, if it is one of the choices compared as strings; else to the
\* defaultValue if there is one and to itself if not, with a warning.  That
\* is the value of the occurrence, the value stored under the primary alias
\* of a flag with one occurrence, and the value the default fallback stores
C10_ChoiceValidated ==
    \A k \in 1..Len(occurrenceLog) :
        LET e == occurrenceLog[k]
            d == e.def
            received == S(argv[e.took])
            primary == PrimaryAlias(definitions[d])
        IN (e.took # 0 /\ HasChoices(d)) =>
              /\ InvalidWarned(d, received) <=> ~IsChoice(d, received)
              /\ e.at # 0 => e.value = Validated(d, received)
              /\ (e.at = 0 \/ (Parsed /\ Len(Occ(d)) = 1 /\ ~Shadowed(d)))
                    => Unwrapped(d, context.flags[primary])
                          = Validated(d, received)

C10_Witness ==
    /\ pc = "returned"
    /\ definitions = <<portFlag, envFlag>>
    /\ argv = <<t_n, t_foo>>
    /\ InvalidWarned(1, S(t_foo))
    /\ context.flags[t_port] = N(1)
    /\ Len(calls) = 1

\* the positions of the definitions PHASE 3 has to run, in declaration order
MatchedList ==
    SelectSeq([d \in 1..Len(definitions) |-> d],
              LAMBDA d : WasMatched(definitions[d], context, processedFlags))

\* the positions of the definitions whose handlers PHASE 3 has invoked
OrdinaryDefs ==
    LET ordinary == SelectSeq(calls, LAMBDA c : c.phase = "ordinary")
    IN [k \in 1..Len(ordinary) |-> ordinary[k].def]

AllSettled == \A k \in 1..Len(promises) : promises[k].state = "fulfilled"

\* C11: the handlers initiated so far are, in order, the first of the
\* matched definitions in declaration order; while a matched definition is
\* left the next handler can be initiated, whatever the promises of the
\* earlier ones are, and no promise settles before the loop is over; the
\* call is past dispatch (default fallback, unknown-argument scan, return)
\* only with every matched handler initiated and every promise settled
C11_InitiatedInOrder ==
    /\ (pc \in {"phase3", "rejected", "returned"} /\ ~DefaultRan) =>
          /\ Len(OrdinaryDefs) <= Len(MatchedList)
          /\ OrdinaryDefs = SubSeq(MatchedList, 1, Len(OrdinaryDefs))
    /\ (pc = "phase3"
        /\ NextMatched(definitions, cursor, context, processedFlags) # 0) =>
          /\ ENABLED (\E outcome \in Outcomes : InvokeHandler(outcome))
          /\ ~ENABLED (\E k \in 1..Len(promises), how \in Settlements :
                          Settle(k, how))
    /\ (pc \in {"phase4", "returned"} \/ DefaultRan) =>
          /\ AllSettled
          /\ ~DefaultRan => OrdinaryDefs = MatchedList

C11_Witness ==
    /\ pc = "phase3"
    /\ Len(calls) = 2
    /\ calls[1].def < calls[2].def
    /\ promises[1].state = "pending"
    /\ promises[2].state = "pending"

Populated(ctx, d) ==
    LET def == definitions[d]
        primary == def.alias.value[1]
    IN /\ HasOccurrence(d) =>
             /\ IF def.type = "command"
                THEN Includes(ctx.commands, primary)
                ELSE primary \in DOMAIN ctx.flags
             /\ \A key \in DOMAIN def.options : key \in DOMAIN ctx.options
       /\ (def.type = "flag" /\ Opt(def.options, "defaultValue") # Undef)
             => primary \in DOMAIN ctx.flags

\* C13: a handler is invoked only when the matching pass is over; the
\* context a matched handler is given holds the commands, flags and options
\* of every definition, and is the context the call returns.  With
\* cli(helloCommand, nameFlag) and ['hello', '--name', 'Alice'] the handler
\* of the command, declared first, reads flags['--name'] = 'Alice'
C13_ContextComplete ==
    /\ pc = "phase2" => calls = <<>>
    /\ \A k \in 1..Len(calls) :
          calls[k].phase = "ordinary" =>
             /\ calls[k].context = context
             /\ \A d \in 1..Len(definitions) : Populated(calls[k].context, d)
    /\ (definitions = <<helloCommand, nameFlag>>
        /\ argv = <<t_hello, t_name, t_Alice>> /\ Len(calls) >= 1)
          => calls[1].context.flags[t_name] = S(t_Alice)

C13_Witness ==
    /\ definitions = <<helloCommand, nameFlag>>
    /\ argv = <<t_hello, t_name, t_Alice>>
    /\ Len(calls) = 1
    /\ calls[1].def = 1
    /\ calls[1].context.flags[t_name] = S(t_Alice)
    /\ calls[1].context.commands = <<t_hello>>

\* the call of the default fallback's handler, as a set of positions of calls
DefaultCalls == {k \in 1..Len(calls) : calls[k].phase = "default"}

\* C14: when a default flag with a defaultValue fires on an empty argv, its
\* handler is given input = defaultValue and flags[primary] = defaultValue
C14_DefaultValueIsInput ==
    \A k \in DefaultCalls :
        LET def == definitions[calls[k].def]
            defaultValue == Opt(def.options, "defaultValue")
        IN (def.type = "flag" /\ defaultValue # Undef /\ argv = <<>>) =>
              /\ calls[k].context.input = defaultValue
              /\ calls[k].context.flags[def.alias.value[1]] = defaultValue

\* the positions of argv whose token does not begin with '-'
NonFlagPositions == {i \in 1..Len(argv) : ~StartsWithDash(argv[i])}

\* C15: when the default command fires and argv has a token that does not
\* begin with '-', the first such token, wherever it stands, is the input
\* the handler of the default command is given
C15_FirstNonFlagIsInput ==
    \A k \in DefaultCalls :
        (definitions[calls[k].def].type = "command"
         /\ NonFlagPositions # {}) =>
            LET first == CHOOSE i \in NonFlagPositions :
                            \A j \in NonFlagPositions : i <= j
            IN calls[k].context.input = S(argv[first])

\* C16: after a default flag with choices has fired with a leading token
\* that is not one of the choices, the input the handler is given, and the
\* input of the returned context, is the validated value stored under the
\* flag's primary alias
C16_InputValidated ==
    \A k \in DefaultCalls :
        LET d == calls[k].def
            primary == definitions[d].alias.value[1]
        IN (HasChoices(d) /\ argv # <<>> /\ ~StartsWithDash(argv[1])
            /\ ~IsChoice(d, S(argv[1]))) =>
              /\ calls[k].context.input = Validated(d, S(argv[1]))
              /\ calls[k].context.input
                    = Unwrapped(d, calls[k].context.flags[primary])
              /\ pc = "returned" =>
                    context.input = Unwrapped(d, context.flags[primary])

IsRequired(d) ==
    IsFlag(d) /\ Opt(definitions[d].options, "isRequired") = B(TRUE)

MissingWarned(d) ==
    Warned(Warn("Missing required flag", "flag",
                definitions[d].alias.value[1], <<>>))

\* C17: once PHASE 2 is over, the warning 'Missing required flag: <primary>'
\* has been emitted for an isRequired flag exactly if none of its aliases
\* occurs in argv, whatever its other options are
C17_MissingRequiredWarned ==
    Parsed => \A d \in 1..Len(definitions) :
                 IsRequired(d) => (MissingWarned(d) <=> ~HasOccurrence(d))

\* the token is a value held in the flags mapping, alone or in a list
IsFlagsValue(token, flags) ==
    \E key \in DOMAIN flags :
        \/ flags[key] = S(token)
        \/ /\ IsList(flags[key])
           /\ Includes(flags[key].list, S(token))

\* the tokens of argv that are none of: a declared alias, a consumed value,
\* an entry of commands, the primary alias of an occurrence-matched flag, a
\* key or a value of flags
Unclaimed ==
    SelectSeq(argv, LAMBDA token :
        /\ token \notin knownAliases
        /\ token \notin usedValues
        /\ ~Includes(context.commands, token)
        /\ token \notin processedFlags
        /\ token \notin DOMAIN context.flags
        /\ ~IsFlagsValue(token, context.flags))

UnknownWarningsEmitted ==
    SelectSeq(warnings, LAMBDA w : w.kind = "Unknown arguments")

\* C18: the returned call has emitted one unknown-arguments warning listing
\* those tokens, comma-joined in argv order, if there is such a token, and
\* none if there is not
C18_UnknownListed ==
    pc = "returned" =>
        UnknownWarningsEmitted =
            IF Len(Unclaimed) > 0
            THEN <<Warn("Unknown arguments", "", <<>>, Join(Unclaimed))>>
            ELSE <<>>

\* element 0 of the alias list of each flag definition
FlagPrimaries ==
    {definitions[d].alias.value[1] :
        d \in {e \in 1..Len(definitions) : IsFlag(e)}}

\* C19: every key of flags is the primary alias of a flag definition, in
\* the context of the call at every moment and in the context every handler
\* is given
C19_KeyedByPrimary ==
    /\ DOMAIN context.flags \subseteq FlagPrimaries
    /\ \A k \in 1..Len(calls) :
          DOMAIN calls[k].context.flags \subseteq FlagPrimaries

C19_Witness ==
    /\ pc = "returned"
    /\ definitions = <<nameFlag, repeatFlag>>
    /\ argv = <<t_n, t_dev, t_t, t_dev>>
    /\ DOMAIN context.flags = {t_name, t_tag}

\* what PHASE 2 synthesizes for the flag at d when it has no occurrence
Synthesized(d) ==
    IF IsBooleanFlag(d)
    THEN Coalesce(Opt(definitions[d].options, "defaultValue"), B(FALSE))
    ELSE Opt(definitions[d].options, "defaultValue")

\* another definition of the same type has the primary alias of d
SharesPrimary(d) ==
    \E e \in 1..Len(definitions) :
        /\ e # d
        /\ definitions[e].type = definitions[d].type
        /\ definitions[e].alias.value[1] = definitions[d].alias.value[1]

\* C20 as stated: once PHASE 2 is over, and unless the default fallback
\* has run, a flag with no occurrence has its synthesized value (isBoolean:
\* defaultValue ?? false, else defaultValue) under its primary alias, in a
\* one-element list if repeatable, and no entry if nothing was synthesized;
\* its handler has not been invoked by PHASE 3; a command with no occurrence
\* has no entry in commands.  What is stored is compared only for a
\* definition that shares its primary alias with no other
C20_AsStated ==
    (Parsed /\ ~DefaultRan) =>
       \A d \in 1..Len(definitions) :
          ~HasOccurrence(d) =>
             LET primary == definitions[d].alias.value[1]
             IN IF IsFlag(d)
                THEN /\ \A k \in 1..Len(calls) : calls[k].def # d
                     /\ ~SharesPrimary(d) =>
                           IF Synthesized(d) = Undef
                           THEN primary \notin DOMAIN context.flags
                           ELSE /\ primary \in DOMAIN context.flags
                                /\ context.flags[primary] =
                                      IF Opt(definitions[d].options,
                                             "repeatable") = B(TRUE)
                                      THEN L(<<Synthesized(d)>>)
                                      ELSE Synthesized(d)
                ELSE ~SharesPrimary(d) =>
                        ~Includes(context.commands, primary)

\* C20: the same, the handler too being that of a flag that shares its
\* primary alias with no other flag
C20_ZeroOccurrences ==
    (Parsed /\ ~DefaultRan) =>
       \A d \in 1..Len(definitions) :
          (~HasOccurrence(d) /\ ~SharesPrimary(d)) =>
             LET primary == definitions[d].alias.value[1]
             IN IF IsFlag(d)
                THEN /\ \A k \in 1..Len(calls) : calls[k].def # d
                     /\ IF Synthesized(d) = Undef
                        THEN primary \notin DOMAIN context.flags
                        ELSE /\ primary \in DOMAIN context.flags
                             /\ context.flags[primary] =
                                   IF Opt(definitions[d].options,
                                          "repeatable") = B(TRUE)
                                   THEN L(<<Synthesized(d)>>)
                                   ELSE Synthesized(d)
                ELSE ~Includes(context.commands, primary)

C20_Witness ==
    /\ pc = "returned"
    /\ definitions = <<nameFlag, defaultVerbose>>
    /\ argv = <<t_n, t_1>>
    /\ context.flags[t_v] = L(<<B(FALSE)>>)
    /\ CallDefs = <<1>>

IsCommand(d) == definitions[d].type = "command"

IsRepeatable(d) == Opt(definitions[d].options, "repeatable") = B(TRUE)

\* the entries the command at d has in commands: its primary alias, once
\* per occurrence if it is repeatable and once if it is not
CommandGroup(d) ==
    LET n == IF IsRepeatable(d) THEN Len(Occ(d)) ELSE 1
    IN [k \in 1..n |-> definitions[d].alias.value[1]]

RECURSIVE CommandGroupsFrom(_)
CommandGroupsFrom(d) ==
    IF d > Len(definitions) THEN <<>>
    ELSE (IF IsCommand(d) /\ HasOccurrence(d) THEN CommandGroup(d) ELSE <<>>)
         \o CommandGroupsFrom(d + 1)

CommandWarnings ==
    SelectSeq(warnings, LAMBDA w :
        w.kind = "Non-repeatable specified times" /\ w.type = "command")

\* C21: after the matching pass, and until the default fallback adds its
\* entry, commands is the concatenation, over the command definitions with
\* an occurrence in declaration order, of the definition's primary alias
\* once per occurrence if it is repeatable and once if it is not, wherever
\* the tokens stand in argv; a non-repeatable command with N > 1
\* occurrences has been warned about with N, and no other command has
C21_CommandsGrouped ==
    (Parsed /\ ~DefaultRan) =>
       /\ context.commands = CommandGroupsFrom(1)
       /\ \A d \in 1..Len(definitions) :
             (IsCommand(d) /\ ~IsRepeatable(d) /\ Len(Occ(d)) > 1) =>
                Warned(Warn("Non-repeatable specified times", "command",
                            definitions[d].alias.value[1],
                            NumToStr(Len(Occ(d)))))
       /\ Len(CommandWarnings) =
             Cardinality({d \in 1..Len(definitions) :
                            IsCommand(d) /\ ~IsRepeatable(d)
                            /\ Len(Occ(d)) > 1})

C21_Witness ==
    /\ pc = "returned"
    /\ definitions = <<helloCommand, startRepeat>>
    /\ argv = <<t_s, t_hello, t_s>>
    /\ context.commands = <<t_hello, t_start, t_start>>

\* the occurrences of PHASE 2, in the order they were processed
Occurrences == SelectSeq(occurrenceLog, LAMBDA e : e.at # 0)

\* what an occurrence gives the input slot: the token it consumed, else the
\* defaultValue substituted for it, unless that value is true; Undef if it
\* gives nothing
Concrete(e) ==
    LET options == definitions[e.def].options
    IN IF e.took # 0 THEN S(argv[e.took])
       ELSE IF /\ Opt(options, "isBoolean") # B(TRUE)
               /\ Opt(options, "defaultValue") # Undef
               /\ Opt(options, "defaultValue") # B(TRUE)
            THEN Opt(options, "defaultValue")
       ELSE Undef

RECURSIVE LastConcrete(_, _)
LastConcrete(log, k) ==
    IF k = 0 THEN Undef
    ELSE IF Concrete(log[k]) # Undef THEN Concrete(log[k])
    ELSE LastConcrete(log, k - 1)

\* C22: the occurrences are processed definition by definition in
\* declaration order, each definition's occurrences from left to right,
\* one for every position of argv that holds an alias of a flag; after the
\* matching pass, and until the default fallback writes, context.input is
\* what the last occurrence with a concrete value gave (the token it
\* consumed, else its defaultValue), and absent if there is none
C22_InputLastWriteWins ==
    (Parsed /\ ~DefaultRan) =>
       /\ \A j, k \in 1..Len(Occurrences) :
             j < k =>
                \/ Occurrences[j].def < Occurrences[k].def
                \/ /\ Occurrences[j].def = Occurrences[k].def
                   /\ Occurrences[j].at < Occurrences[k].at
       /\ \A d \in 1..Len(definitions) :
             IsFlag(d) =>
                {e.at : e \in {Occurrences[k] : k \in {j \in 1..Len(Occurrences) :
                                                        Occurrences[j].def = d}}}
                   = {i \in 1..Len(argv) :
                        Includes(definitions[d].alias.value, argv[i])}
       /\ context.input = LastConcrete(Occurrences, Len(Occurrences))

C22_Witness ==
    /\ pc = "returned"
    /\ definitions = <<repeatFlag, nameFlag>>
    /\ argv = <<t_n, t_dev, t_t, t_dev>>
    /\ Len(Occurrences) = 2
    /\ Occurrences[1].took = 4
    /\ Occurrences[2].took = 0
    /\ context.input = S(t_Guest)

\* the positions of the definitions whose options are merged: those with
\* an occurrence, in declaration order, and after them the default
\* definition the fallback has run
Contributors ==
    SelectSeq([d \in 1..Len(definitions) |-> d], HasOccurrence)
    \o [k \in 1..Cardinality(DefaultCalls) |->
           calls[CHOOSE c \in DefaultCalls : TRUE].def]

\* the key has the value the last contributor that has it gives it
MergedOptions ==
    LET keys == UNION {DOMAIN definitions[Contributors[k]].options :
                          k \in 1..Len(Contributors)}
        last(key) == CHOOSE k \in 1..Len(Contributors) :
                        /\ key \in DOMAIN definitions[Contributors[k]].options
                        /\ \A j \in (k + 1)..Len(Contributors) :
                              key \notin
                                 DOMAIN definitions[Contributors[j]].options
    IN [key \in keys |-> definitions[Contributors[last(key)]].options[key]]

\* C23: once the matching pass is over, the aggregate options is the union
\* of the options of the definitions with an occurrence in argv, and of the
\* default definition once the fallback has run, a key that several of them
\* have holding the value of the one merged last; a definition with no
\* occurrence gives nothing
C23_OptionsMerged == Parsed => context.options = MergedOptions

C23_Witness ==
    /\ pc = "returned"
    /\ definitions = <<portFlag, nameFlag>>
    /\ argv = <<t_n, t_1>>
    /\ context.options.defaultValue = S(t_Guest)
    /\ context.options.choices = L(<<N(1), N(30)>>)

\* the per-call state as the body of the runner creates it, after PHASE 1
OnlyCallEntered ==
    [context |-> NewContext, usedValues |-> {}, processedFlags |-> {},
     matchedAny |-> FALSE, warnings |-> CollectAliases(definitions).warnings,
     log |-> <<>>]

\* the state of a call of the runner with argv, were it the runner's only
\* call, after the passes of PHASE 2 over the first k definitions
RECURSIVE OnlyCallAfter(_)
OnlyCallAfter(k) ==
    IF k = 0 THEN OnlyCallEntered
    ELSE MatchDefinition(k, definitions[k], argv, OnlyCallAfter(k - 1))

\* the same after the context update of the default fallback
OnlyCallFallback ==
    LET st == OnlyCallAfter(Len(definitions))
        defaults == DefaultDefinitions(definitions)
        multiple == IF Len(defaults) > 1
                    THEN <<Warn("Multiple default definitions", "",
                                definitions[defaults[1]].alias.value[1],
                                <<>>)>>
                    ELSE <<>>
    IN ApplyDefault(definitions[defaults[1]], argv,
                    [context |-> st.context, usedValues |-> st.usedValues,
                     processedFlags |-> st.processedFlags,
                     warnings |-> st.warnings \o multiple])

IsPrefix(a, b) == Len(a) <= Len(b) /\ a = SubSeq(b, 1, Len(a))

NoFailure == \A k \in 1..Len(calls) : calls[k].failure = "none"

\* C24: in every call of a runner, the first or a later one, the known
\* aliases, the context, the consumed values, the processed flags, the
\* matched mark, the warnings and the handler invocations are those of the
\* call with the same argv, were it the only call of the runner: they are
\* computed from the definitions and argv alone, from an empty context and
\* empty sets
C24_NothingPersists ==
    pc # "idle" =>
       LET passed == IF pc = "phase2" THEN cursor - 1 ELSE Len(definitions)
           only == IF DefaultRan THEN OnlyCallFallback
                   ELSE OnlyCallAfter(passed)
       IN /\ knownAliases = CollectAliases(definitions).knownAliases
          /\ context = only.context
          /\ usedValues = only.usedValues
          /\ processedFlags = only.processedFlags
          /\ matchedAny = OnlyCallAfter(passed).matchedAny
          /\ IsPrefix(only.warnings, warnings)
          /\ pc = "phase2" => (warnings = only.warnings /\ calls = <<>>)
          /\ IF DefaultRan
             THEN /\ ~matchedAny
                  /\ CallDefs = <<DefaultDefinitions(definitions)[1]>>
             ELSE IsPrefix(CallDefs, MatchedList)
          /\ \A k \in 1..Len(calls) : calls[k].context = only.context
          /\ (pc = "returned" /\ NoFailure) =>
                /\ warnings = only.warnings
                      \o UnknownWarnings(UnknownArgs(argv, knownAliases,
                             only.usedValues, only.context,
                             only.processedFlags))
                /\ DefaultRan <=> FallbackApplies(matchedAny, definitions)
                /\ ~DefaultRan => CallDefs = MatchedList

C24_Witness ==
    /\ lastCall = "used"
    /\ pc = "returned"
    /\ definitions = <<nameFlag>>
    /\ argv = <<t_n, t_foo>>
    /\ usedValues = {t_foo}
    /\ context.flags = (t_name :> S(t_foo))
    /\ context.input = S(t_foo)
    /\ warnings = <<>>
    /\ CallDefs = <<1>>

\* the promise of the k-th handler PHASE 3 invoked is pending
PendingAt(k) == k <= Len(promises) /\ promises[k].state = "pending"

\* the promise of the default handler is pending
DefaultPending == pc = "phase4"

\* every promise a handler returns settles: none is pending for ever
EverySettles ==
    /\ \A k \in 1..MaxDefs : []<>~PendingAt(k)
    /\ []<>~DefaultPending

\* no handler throws instead of returning, or rejects with null or
\* undefined
Crashed ==
    \E k \in 1..Len(calls) : calls[k].failure \in {"threw", "rejectedNullish"}

\* C25: the call has returned only with every promise of a handler
\* settled; while the engine waits for the promises, every matched handler
\* has been invoked, and the loop of PHASE 3 gets there whatever the
\* promises do; and if every handler resolves or rejects with an Error, in
\* the end, the call returns
C25_ReturnsAfterAllSettle ==
    /\ [](pc = "returned" =>
            (\A k \in 1..MaxDefs : ~PendingAt(k)) /\ ~DefaultPending)
    /\ []((pc = "phase3" /\ Awaiting) => OrdinaryDefs = MatchedList)
    /\ (pc = "phase3" /\ ~Awaiting) ~> (Awaiting \/ pc = "rejected")
    /\ (EverySettles /\ []~Crashed) => (pc # "idle" ~> pc = "returned")

C25_Witness ==
    /\ pc = "phase3"
    /\ Awaiting
    /\ Len(promises) = 2
    /\ promises[1].state = "pending"
    /\ promises[2].state = "fulfilled"
    /\ OrdinaryDefs = MatchedList

ParseDone == parser.pc = "done"

\* the token at position j (counted from 1) is a declared subcommand's name
\* or alias
NamesSubcommand(j) ==
    \E k \in 1..Len(parser.command.subcommands) :
        \/ parser.command.subcommands[k].name = parser.argvs[j]
        \/ \E a \in 1..Len(parser.command.subcommands[k].aliases) :
              parser.command.subcommands[k].aliases[a] = parser.argvs[j]

BareDashes(j) == parser.argvs[j] = <<"-", "-">>

\* the positions before the first bare '--'
BeforeDashes ==
    {j \in 1..Len(parser.argvs) : \A k \in 1..j : ~BareDashes(k)}

\* C26 as stated: whenever argv has a token equal to a declared
\* subcommand's name or alias before any '--', remaining begins with the
\* first such token: it is that token and everything after it
C26_AsStated ==
    ParseDone =>
       LET named == {j \in BeforeDashes : NamesSubcommand(j)}
       IN named # {} =>
             LET first == CHOOSE j \in named : \A k \in named : j <= k
             IN parser.parsed.remaining =
                   SubSeq(parser.argvs, first, Len(parser.argvs))

\* the token at position j is taken as the value of the option before it:
\* it stands after a token that begins with '-', is not '--' and has no
\* '=', and it is not empty and does not begin with '-'
TakenAsValue(j) ==
    /\ j > 1
    /\ parser.argvs[j - 1] # <<>>
    /\ parser.argvs[j - 1][1] = "-"
    /\ ~BareDashes(j - 1)
    /\ \A c \in 1..Len(parser.argvs[j - 1]) : parser.argvs[j - 1][c] # "="
    /\ parser.argvs[j] # <<>>
    /\ parser.argvs[j][1] # "-"

\* the positions the scan stops at: a bare '--', or a token that names a
\* subcommand, does not begin with '-' and is not taken as a value
Stops ==
    {j \in 1..Len(parser.argvs) :
        \/ BareDashes(j)
        \/ /\ NamesSubcommand(j)
           /\ parser.argvs[j][1] # "-"
           /\ ~TakenAsValue(j)}

FirstStop == CHOOSE j \in Stops : \A k \in Stops : j <= k

\* the positions execute() parses as options or arguments
ScannedPositions ==
    IF Stops = {} THEN 1..Len(parser.argvs) ELSE 1..(FirstStop - 1)

\* C26: execute() stops at the first position that holds a bare '--' or a
\* token that names a subcommand, does not begin with '-' and is not taken
\* as the value of the option before it.  remaining is what follows the
\* '--', or the subcommand token and what follows it, and is empty when
\* there is no such position; args holds, in order, the tokens before that
\* position that neither begin with '-' nor are taken as values, and no
\* token from that position on is parsed
C26_StopsAtFirst ==
    ParseDone =>
       /\ parser.parsed.remaining =
             IF Stops = {} THEN <<>>
             ELSE IF BareDashes(FirstStop)
                  THEN SubSeq(parser.argvs, FirstStop + 1, Len(parser.argvs))
                  ELSE SubSeq(parser.argvs, FirstStop, Len(parser.argvs))
       /\ parser.parsed.args =
             LET positional ==
                    SelectSeq([j \in 1..Len(parser.argvs) |-> j],
                              LAMBDA j : /\ j \in ScannedPositions
                                         /\ ~TakenAsValue(j)
                                         /\ \/ parser.argvs[j] = <<>>
                                            \/ parser.argvs[j][1] # "-")
             IN [k \in 1..Len(positional) |-> parser.argvs[positional[k]]]
       /\ (DOMAIN parser.parsed.opts = {}) <=>
             (\A j \in ScannedPositions :
                 parser.argvs[j] = <<>> \/ parser.argvs[j][1] # "-")

C26_Witness ==
    /\ ParseDone
    /\ parser.command = buildCommand
    /\ parser.argvs = <<t_x, t_ff, t_b, t_build>>
    /\ parser.parsed.args = <<t_x>>
    /\ parser.parsed.opts = (<<"f">> :> S(t_b))
    /\ parser.parsed.remaining = <<t_build>>

\* C27: for every option name f and value v, execute() on ['--f=v'] and
\* on ['--f', v] returns the same result: opts = {f: v}, no args, nothing
\* remaining
C27_SyntaxesEquivalent ==
    ParseDone =>
       \A f \in FlagNames, v \in FlagValues :
          LET both == [args |-> <<>>, opts |-> (f :> S(v)),
                       remaining |-> <<>>]
          IN /\ parser.argvs = <<EqualsForm(f, v)>> =>
                   /\ parser.parsed = both
                   /\ parser.parsed = Execute(parser.command, SpaceForm(f, v))
             /\ parser.argvs = SpaceForm(f, v) =>
                   /\ parser.parsed = both
                   /\ parser.parsed =
                         Execute(parser.command, <<EqualsForm(f, v)>>)

\* how many times the handler of the definition at d has been invoked
Invocations(d) == Cardinality({k \in 1..Len(calls) : calls[k].def = d})

\* C28: in a call no definition's handler is invoked more than once; when
\* the call has returned, a definition with occurrences in argv, however
\* many, has had its handler invoked once; and when the default fallback
\* applies, the handler of the selected default definition is the only one
\* invoked, once
C28_InvokedOnce ==
    /\ \A d \in 1..Len(definitions) : Invocations(d) <= 1
    /\ pc = "returned" =>
          \A d \in 1..Len(definitions) :
             HasOccurrence(d) => Invocations(d) = 1
    /\ ((Ended \/ pc = "phase4") /\ ~AnyOccurrence /\ Defaults # {}) =>
          LET first == CHOOSE d \in Defaults : \A e \in Defaults : d <= e
          IN /\ Len(calls) = 1
             /\ Invocations(first) = 1

C28_Witness ==
    /\ pc = "returned"
    /\ definitions = <<repeatFlag, helloCommand>>
    /\ argv = <<t_tag, t_dev, t_tag, t_prod>>
    /\ context.flags[t_tag] = L(<<S(t_dev), S(t_prod)>>)
    /\ Invocations(1) = 1
    /\ Len(calls) = 1

\* C29: a handler invoked by PHASE 3 is that of a definition one of whose
\* own aliases stands in argv, also when definitions share aliases
C29_OwnAliasOnly ==
    \A k \in 1..Len(calls) :
        calls[k].phase = "ordinary" => HasOccurrence(calls[k].def)

\* C30: in a returned call, an isBoolean flag with no defaultValue (and a
\* primary alias of its own) has under its primary alias a boolean, or a
\* list of booleans if it is repeatable: true for each occurrence, false
\* when it is absent and the default fallback has not run, and never a
\* string, the default fallback included
C30_BooleanStored ==
    pc = "returned" =>
       \A d \in 1..Len(definitions) :
          (IsBooleanFlag(d)
           /\ Opt(definitions[d].options, "defaultValue") = Undef
           /\ ~SharesPrimary(d)) =>
             LET primary == definitions[d].alias.value[1]
                 stored == context.flags[primary]
                 n == Len(Occ(d))
             IN /\ primary \in DOMAIN context.flags
                /\ IF IsRepeatable(d)
                   THEN /\ IsList(stored)
                        /\ \A i \in 1..Len(stored.list) :
                              IsBool(stored.list[i])
                   ELSE IsBool(stored)
                /\ n > 0 =>
                      stored = IF IsRepeatable(d)
                               THEN L([i \in 1..n |-> B(TRUE)])
                               ELSE B(TRUE)
                /\ (n = 0 /\ ~DefaultRan) =>
                      stored = IF IsRepeatable(d) THEN L(<<B(FALSE)>>)
                               ELSE B(FALSE)

====
